---- MODULE Spec2Model ----
(***************************************************************************)
(* Model of the request validation and execution core of the Inkscape MCP  *)
(* CLI server (src/src/inkscape_mcp/cli_server.py).                        *)
(*                                                                         *)
(* Strings are sequences of one-character strings, a path is a sequence of *)
(* segments, a segment is a non-empty string without "/".                  *)
(***************************************************************************)
EXTENDS Integers, Sequences, FiniteSets, TLC

\* ------------------------------------------------------------------------
\* Bounds of the model
\* ------------------------------------------------------------------------

\* Longest candidate string the path specification enumerates.
MaxLen == 4

\* CFG.max_concurrent, the size of the gate of every server process.
MaxConcurrent == 1

\* CFG.max_file_size, in bytes.
MaxFileSize == 2

\* ------------------------------------------------------------------------
\* Strings and POSIX paths (pathlib.Path on a POSIX host)
\* ------------------------------------------------------------------------

SEP == "/"
Chars == {"/", ".", "w", "o", "\\"}

DOTDOT == <<".", ".">>
DOT == <<".">>

\* str.startswith
StartsWith(s, prefix) ==
    /\ Len(prefix) <= Len(s)
    /\ SubSeq(s, 1, Len(prefix)) = prefix

RECURSIVE SplitSep(_, _, _)
\* s.split("/") with the empty and the "." pieces dropped, as pathlib parses
\* a POSIX path string: cur is the piece being read, acc the pieces so far.
SplitSep(s, cur, acc) ==
    LET keep(piece) == IF piece = <<>> \/ piece = DOT THEN acc
                       ELSE Append(acc, piece)
    IN  IF s = <<>> THEN keep(cur)
        ELSE IF Head(s) = SEP THEN SplitSep(Tail(s), <<>>, keep(cur))
        ELSE SplitSep(Tail(s), Append(cur, Head(s)), acc)

\* Path(s): only "/" separates segments on a POSIX host; a backslash is an
\* ordinary character of a segment.
Path(s) ==
    [abs |-> (s # <<>> /\ Head(s) = SEP), parts |-> SplitSep(s, <<>>, <<>>)]

\* a / b
JoinPath(base, p) == IF p.abs THEN p.parts ELSE base \o p.parts

\* The symbolic links of the file system the model runs in:
\*   /o    -> /w    an alias of the directory /w
\*   /w/o  -> /ww   a link below /w that leaves it, to a sibling of /w whose
\*                  name starts with the name of /w
Links ==
    ( << <<"o">> >> :> << <<"w">> >> ) @@
    ( << <<"w">>, <<"o">> >> :> << <<"w", "w">> >> )

RECURSIVE Realpath(_, _)
\* Path.resolve() (os.path.realpath, not strict) of the absolute path
\* cur/rest, cur already canonical: ".." drops the last canonical segment,
\* a symbolic link is replaced by its target.
Realpath(cur, rest) ==
    IF rest = <<>> THEN cur
    ELSE LET seg == Head(rest)
             nxt == Append(cur, seg)
         IN  IF seg = DOTDOT
                THEN Realpath(IF cur = <<>> THEN cur ELSE SubSeq(cur, 1, Len(cur) - 1),
                              Tail(rest))
             ELSE IF seg = DOT THEN Realpath(cur, Tail(rest))
             ELSE IF nxt \in DOMAIN Links THEN Realpath(Links[nxt], Tail(rest))
             ELSE Realpath(nxt, Tail(rest))

RECURSIVE JoinSegs(_)
JoinSegs(parts) ==
    IF parts = <<>> THEN <<>>
    ELSE IF Len(parts) = 1 THEN Head(parts)
    ELSE Head(parts) \o <<SEP>> \o JoinSegs(Tail(parts))

\* str(p) of an absolute path
Str(parts) == <<SEP>> \o JoinSegs(parts)

\* The values CFG.workspace takes: a plain directory, a symbolic link to it,
\* and the root of the file system.
Workspaces == { << <<"w">> >>, << <<"o">> >>, <<>> }

\* the startswith test of _ensure_in_workspace without the separator
InsideNoSep(p_resolved, workspace_resolved) ==
    \/ p_resolved = workspace_resolved
    \/ StartsWith(Str(p_resolved), Str(workspace_resolved))

\* the containment test of _ensure_in_workspace
Inside(p_resolved, workspace_resolved) ==
    \/ p_resolved = workspace_resolved
    \/ StartsWith(Str(p_resolved), Str(workspace_resolved) \o <<SEP>>)

\* _ensure_in_workspace(p) under CFG.workspace = workspace
_ensure_in_workspace(workspace, p) ==
    LET workspace_resolved == Realpath(<<>>, workspace)
        p_resolved == Realpath(<<>>, JoinPath(workspace, p))
    IN  IF Inside(p_resolved, workspace_resolved)
        THEN [ok |-> TRUE, path |-> p_resolved]
        ELSE [ok |-> FALSE, err |-> "PathEscape"]

\* ------------------------------------------------------------------------
\* SafetyPolicy: the action allowlist.  An action token is a string whose
\* identifier is written as two pieces, its family ("select-") and its name.
\* ------------------------------------------------------------------------

\* Python's None, for a string, a path and an Export
NONE == <<"None">>
NoPath == << <<"None">> >>
NoExport == [type |-> "none", out |-> <<>>, dpi |-> 0, area |-> "page"]

SAFE_ACTIONS == {
    <<"select-", "all">>, <<"select-", "clear">>, <<"select-", "by-id">>,
    <<"select-", "by-class">>, <<"select-", "by-element">>,
    <<"path-", "union">>, <<"path-", "difference">>, <<"path-", "intersection">>,
    <<"path-", "division">>, <<"path-", "exclusion">>, <<"path-", "simplify">>,
    <<"object-", "to-path">>, <<"object-", "stroke-to-path">>,
    <<"selection-", "group">>, <<"selection-", "ungroup">>,
    <<"export-", "area-page">>, <<"export-", "area-drawing">>,
    <<"export-", "type">>, <<"export-", "filename">>, <<"export-", "dpi">>,
    <<"export-", "do">>,
    <<"file-", "save">>, <<"file-", "close">>,
    <<"transform-", "translate">>, <<"transform-", "scale">>,
    <<"transform-", "rotate">>,
    <<"query-", "x">>, <<"query-", "y">>, <<"query-", "width">>,
    <<"query-", "height">>, <<"query-", "all">> }

RECURSIVE Find(_, _, _)
\* the least index >= i of character c in s, or 0
Find(s, c, i) ==
    IF i > Len(s) THEN 0
    ELSE IF s[i] = c THEN i
    ELSE Find(s, c, i + 1)

\* a.split(c, 1)[0]
BeforeFirst(a, c) ==
    LET i == Find(a, c, 1) IN IF i = 0 THEN a ELSE SubSeq(a, 1, i - 1)

\* a.split(c, 1)[1], or the empty string when c does not occur
AfterFirst(a, c) ==
    LET i == Find(a, c, 1) IN IF i = 0 THEN <<>> ELSE SubSeq(a, i + 1, Len(a))

_is_safe_action(a) == BeforeFirst(a, ":") \in SAFE_ACTIONS

\* a validator that looks at the first token only
validate_actions_first(v) == v = <<>> \/ _is_safe_action(v[1])

\* RunArgs.validate_actions: TRUE when no token of v raises
validate_actions(v) == \A i \in 1..Len(v) : _is_safe_action(v[i])

\* ------------------------------------------------------------------------
\* _mk_cmd and the engine's reading of the command line
\* ------------------------------------------------------------------------

RECURSIVE JoinWith(_, _)
\* sep.join(items)
JoinWith(items, sep) ==
    IF items = <<>> THEN <<>>
    ELSE IF Len(items) = 1 THEN Head(items)
    ELSE Head(items) \o <<sep>> \o JoinWith(Tail(items), sep)

\* a command builder that never clears the selection first
MkActsNoClear(actions, export, tmp_export) ==
    LET exp == IF export = NoExport THEN <<>>
               ELSE << IF export.area = "page" THEN <<"export-", "area-page">>
                       ELSE <<"export-", "area-drawing">>,
                       <<"export-", "type", ":", export.type>>,
                       <<"export-", "filename", ":">> \o Str(tmp_export) >>
                    \o (IF export.dpi # 0
                        THEN << <<"export-", "dpi", ":", ToString(export.dpi)>> >>
                        ELSE <<>>)
                    \o << <<"export-", "do">> >>
    IN  actions \o exp

\* the action list _mk_cmd builds
MkActs(actions, export, tmp_export) ==
    LET pre == IF \E i \in 1..Len(actions) :
                      \/ StartsWith(actions[i], <<"select-">>)
                      \/ StartsWith(actions[i], <<"query-">>)
               THEN << <<"select-", "clear">> >> ELSE <<>>
        exp == IF export = NoExport THEN <<>>
               ELSE << IF export.area = "page" THEN <<"export-", "area-page">>
                       ELSE <<"export-", "area-drawing">>,
                       <<"export-", "type", ":", export.type>>,
                       <<"export-", "filename", ":">> \o Str(tmp_export) >>
                    \o (IF export.dpi # 0
                        THEN << <<"export-", "dpi", ":", ToString(export.dpi)>> >>
                        ELSE <<>>)
                    \o << <<"export-", "do">> >>
    IN  pre \o actions \o exp

\* _mk_cmd: the input file and the value of --actions=
_mk_cmd(infile, actions, export, tmp_export) ==
    [infile |-> infile,
     actions |-> JoinWith(MkActs(actions, export, tmp_export), ";")]

RECURSIVE Split(_, _, _, _)
\* s.split(c): every piece, the empty ones too
Split(s, c, cur, acc) ==
    IF s = <<>> THEN Append(acc, cur)
    ELSE IF Head(s) = c THEN Split(Tail(s), c, <<>>, Append(acc, cur))
    ELSE Split(Tail(s), c, Append(cur, Head(s)), acc)

\* The engine reads --actions: split on ";", each piece "id:argument".
EngineActions(str) ==
    LET pieces == Split(str, ";", <<>>, <<>>)
    IN  [i \in 1..Len(pieces) |->
            [id |-> BeforeFirst(pieces[i], ":"), arg |-> AfterFirst(pieces[i], ":")]]

RECURSIVE EngineTargets(_, _, _)
\* The files the engine writes, in order: export-do writes the file the last
\* export-filename named, file-save writes the input file.
EngineTargets(acts, filename, infile) ==
    IF acts = <<>> THEN <<>>
    ELSE LET a == Head(acts)
         IN  IF a.id = <<"export-", "filename">>
                THEN EngineTargets(Tail(acts), Realpath(<<>>, Path(a.arg).parts), infile)
             ELSE IF a.id = <<"export-", "do">> /\ filename # NoPath
                THEN <<filename>> \o EngineTargets(Tail(acts), filename, infile)
             ELSE IF a.id = <<"file-", "save">>
                THEN <<infile>> \o EngineTargets(Tail(acts), filename, infile)
             ELSE EngineTargets(Tail(acts), filename, infile)

\* ------------------------------------------------------------------------
\* Path arithmetic of _action_run_impl
\* ------------------------------------------------------------------------

Last(q) == q[Len(q)]
Parent(q) == IF q = <<>> THEN q ELSE SubSeq(q, 1, Len(q) - 1)
Name(q) == IF q = <<>> THEN <<>> ELSE Last(q)

RECURSIVE RFind(_, _, _)
\* the greatest index <= i of character c in s, or 0
RFind(s, c, i) ==
    IF i = 0 THEN 0
    ELSE IF s[i] = c THEN i
    ELSE RFind(s, c, i - 1)

\* PurePath.suffix and PurePath.stem of a file name
Suffix(name) ==
    LET i == RFind(name, ".", Len(name))
    IN  IF 1 < i /\ i < Len(name) THEN SubSeq(name, i, Len(name)) ELSE <<>>
Stem(name) ==
    LET i == RFind(name, ".", Len(name))
    IN  IF 1 < i /\ i < Len(name) THEN SubSeq(name, 1, i - 1) ELSE name

\* uuid.uuid4().hex of the call of request r: unique per call
\* a uuid that is the same for every request
UuidFixed(r) == "0"

Uuid(r) == ToString(r)

\* an export that lets the engine write the destination itself
TmpExportSame(final_export, r) == final_export

\* final_export.parent / (stem + ".tmp-<uuid>" + suffix)
TmpExport(final_export, r) ==
    Append(Parent(final_export),
           Stem(Name(final_export)) \o <<".tmp-", Uuid(r)>> \o Suffix(Name(final_export)))

\* CFG.workspace / "inline-<uuid>.svg"
InlinePath(workspace, r) == Append(workspace, <<"inline-", Uuid(r), ".svg">>)

\* str(lock_path) + ".lock", as a path
LockPath(infile) == Path(Str(infile) \o <<".lock">>).parts

\* len(svg.encode("utf-8")): "e'" stands for a two-byte character
RECURSIVE Utf8Len(_)
Utf8Len(svg) ==
    IF svg = <<>> THEN 0
    ELSE (IF Head(svg) = "e'" THEN 2 ELSE 1) + Utf8Len(Tail(svg))

\* ------------------------------------------------------------------------
\* The parsing of the engine's action list (_action_list_impl)
\* ------------------------------------------------------------------------

RECURSIVE FindSub(_, _, _)
\* the least index >= i at which sub occurs in s, or 0
FindSub(s, sub, i) ==
    IF i + Len(sub) - 1 > Len(s) THEN 0
    ELSE IF SubSeq(s, i, i + Len(sub) - 1) = sub THEN i
    ELSE FindSub(s, sub, i + 1)

RECURSIVE LStrip(_)
LStrip(s) == IF s # <<>> /\ Head(s) = " " THEN LStrip(Tail(s)) ELSE s

RECURSIVE RStrip(_)
RStrip(s) ==
    IF s # <<>> /\ s[Len(s)] = " " THEN RStrip(SubSeq(s, 1, Len(s) - 1)) ELSE s

\* str.strip()
Strip(s) == LStrip(RStrip(s))

\* the separator of an identifier and its description
COLON == <<" ", ":", " ">>

RECURSIVE ParseList(_)
\* the items of the lines that contain " : ": line.split(" : ", 1), both
\* pieces stripped; the other lines are skipped
ParseList(lines) ==
    IF lines = <<>> THEN <<>>
    ELSE LET line == Head(lines)
             i == FindSub(line, COLON, 1)
         IN  IF i = 0 THEN ParseList(Tail(lines))
             ELSE << [id |-> Strip(SubSeq(line, 1, i - 1)),
                      doc |-> Strip(SubSeq(line, i + Len(COLON), Len(line)))] >>
                  \o ParseList(Tail(lines))

\* stdout of "inkscape --action-list", as lines: no answer yet, and the
\* answers an installed engine gives
Unset == << <<"unset">> >>
PlainOutput ==
    << <<"a", " ", ":", " ", "x">>,
       <<"b", " ", ":", " ", "y">> >>
NoisyOutput ==
    << <<"w", "a", "r", "n", ":", " ", "x">>,
       <<" ", "b", " ", " ", ":", " ", " ", "y", " ", ":", " ", "z", " ">>,
       <<>>,
       <<"a", " ", ":", " ">> >>
ListOutputs == { PlainOutput, NoisyOutput, <<>> }

\* ------------------------------------------------------------------------
\* State
\* ------------------------------------------------------------------------

VARIABLES
    pg_ws,        \* path guard specification: CFG.workspace
    pg_cand,      \* path guard specification: the candidate string
    pg_res,       \* path guard specification: what _ensure_in_workspace gave
    pc,           \* per request: where its call of _action_run_impl stands
    srv,          \* per request: the server process (event loop) that runs it
    loop,         \* per server: the request whose synchronous code runs, or 0
    sem,          \* per server: SEM, the free slots of the gate
    actions,      \* per request: args.actions
    doc,          \* per request: args.doc
    export,       \* per request: args.export
    infile,       \* per request: the resolved input
    final_export, \* per request: the resolved destination
    tmp_export,   \* per request: the temporary export path
    exc,          \* per request: the exception raised inside the try block
    expired,      \* per request: communicate(timeout=timeout) has timed out
    result,       \* per request: what the call returned or raised
    locks,        \* the lock files held (FileLock), as paths
    fs,           \* the files: path -> content
    proc,         \* per request: the engine process tree of its Popen
    lpc,          \* the ListActions call: where _action_list_impl stands
    lres,         \* the ListActions call: what it returned or raised
    lproc,        \* the ListActions call: the engine process of its run_process
    lout,         \* what the installed engine prints for --action-list
    lprev,        \* what the ListActions call before this one returned
    inited,       \* per server: _init_config has run (CFG and SEM are set)
    timeout_s,    \* per request: the timeout_s argument of the call
    timeout,      \* per request: the bound passed to communicate()
    arrival       \* the requests that found their lock held, in that order

pgvars == <<pg_ws, pg_cand, pg_res>>
reqvars == <<pc, srv, loop, sem, actions, doc, export, infile, final_export,
             tmp_export, exc, expired, result, locks, fs, proc, lpc, lres, lproc,
             lout, lprev, inited, timeout_s, timeout, arrival>>
listvars == <<lpc, lres, lproc, lout, lprev>>
cfgvars == <<inited>>
argvars == <<timeout_s, timeout>>
histvars == <<arrival>>
vars == <<pg_ws, pg_cand, pg_res, pc, srv, loop, sem, actions, doc, export,
          infile, final_export, tmp_export, exc, expired, result, locks, fs, proc,
          lpc, lres, lproc, lout, lprev, inited, timeout_s, timeout, arrival>>

NoRes == [ok |-> FALSE, err |-> "none"]

\* the RunActions calls: two callers, each making one call
Reqs == {1, 2}
Servers == {1, 2}

\* CFG.workspace of the servers
Workspace == << <<"w">> >>

NoDoc == [type |-> "none", path |-> NONE, svg |-> NONE]
NoProc == [leader |-> "none", code |-> 0, helper |-> "none", wr |-> 0,
           err |-> "", sig |-> <<>>, cmd |-> [infile |-> NoPath, actions |-> <<>>]]

\* the signals the orchestrator sends: os.killpg(proc.pid, signal.SIGTERM)
\* goes to the process group, proc.kill() to the process Popen started
SIGTERM == [sig |-> "SIGTERM", to |-> "group"]
SIGKILL == [sig |-> "SIGKILL", to |-> "leader"]
NoResult == [kind |-> "none", out |-> NONE, msg |-> <<>>]
NoLres == [kind |-> "none", items |-> <<>>]

\* timeout_s: int | None = None, and the values a caller gives
NoTimeout == [given |-> FALSE, v |-> 0]
Timeouts == {NoTimeout} \cup {[given |-> TRUE, v |-> n] : n \in {0, 1, 2}}

\* CFG.timeout_default
timeout_default == 60

\* timeout = args.timeout_s or CFG.timeout_default: Python's "or" takes the
\* right side when the left one is None or 0
TimeoutOf(t) == IF t.given /\ t.v # 0 THEN t.v ELSE timeout_default

\* the text of the error a call raises, as the pieces it is made of; the
\* text of an operating-system error is the system's
Message(kind) ==
    CASE kind = "NotInitialized" -> <<"Server not initialized">>
      [] kind = "UnsafeAction" -> <<"Unsafe action: ", "<token>">>
      [] kind = "MissingFilePath" -> <<"Missing file path">>
      [] kind = "PathEscape" -> <<"Path escapes workspace">>
      [] kind = "NotFound" -> <<"File not found">>
      [] kind = "TooLarge" -> <<"File too large: ", "<size>">>
      [] kind = "MissingContent" -> <<"Missing inline SVG">>
      [] kind = "Timeout" -> <<"Operation timed out">>
      [] kind = "ExecutionFailed" -> <<"inkscape failed">>
      [] kind = "ExportMissing" -> <<"export missing">>
      [] kind \in {"SpawnFailed", "OSError"} -> <<"<strerror>">>
      [] OTHER -> <<>>

\* file contents: who wrote the file and whether the write is complete
Orig == [k |-> "orig", by |-> 0]
LockFile == [k |-> "lock", by |-> 0]
InlineFile(r) == [k |-> "inline", by |-> r]
Partial(r) == [k |-> "part", by |-> r]
Full(r) == [k |-> "full", by |-> r]

\* the directories of the file system
Dirs == { <<>>, << <<"w">> >>, << <<"w", "w">> >> }

\* st_size of the files that exist from the start; a written file is small
SizeOf(p) ==
    IF p = << <<"w">>, <<"big">> >> THEN MaxFileSize + 1
    ELSE IF p = << <<"w">>, <<"a">> >> THEN MaxFileSize
    ELSE 0

Exists(p) == p \in DOMAIN fs \/ p \in Dirs

Remove(f, p) == [q \in DOMAIN f \ {p} |-> f[q]]
Put(f, p, v) == [q \in DOMAIN f \cup {p} |-> IF q = p THEN v ELSE f[q]]

MainInit ==
    /\ pc = [r \in Reqs |-> "idle"]
    /\ srv = [r \in Reqs |-> 0]
    /\ loop = [s \in Servers |-> 0]
    /\ sem = [s \in Servers |-> MaxConcurrent]
    /\ actions = [r \in Reqs |-> <<>>]
    /\ doc = [r \in Reqs |-> NoDoc]
    /\ export = [r \in Reqs |-> NoExport]
    /\ infile = [r \in Reqs |-> NoPath]
    /\ final_export = [r \in Reqs |-> NoPath]
    /\ tmp_export = [r \in Reqs |-> NoPath]
    /\ exc = [r \in Reqs |-> "none"]
    /\ expired = [r \in Reqs |-> FALSE]
    /\ result = [r \in Reqs |-> NoResult]
    /\ locks = {}
    /\ fs = ( << <<"w">>, <<"a">> >> :> Orig ) @@ ( << <<"w">>, <<"big">> >> :> Orig )
    /\ proc = [r \in Reqs |-> NoProc]
    /\ lpc = "idle"
    /\ lres = NoLres
    /\ lproc = "none"
    /\ lout = Unset
    /\ lprev = NoLres
    /\ timeout_s = [r \in Reqs |-> NoTimeout]
    /\ timeout = [r \in Reqs |-> 0]
    /\ arrival = <<>>

\* ------------------------------------------------------------------------
\* Specification of the path guard: every candidate string up to MaxLen,
\* under every workspace
\* ------------------------------------------------------------------------

PgInit ==
    /\ pg_ws \in Workspaces
    /\ pg_cand = <<>>
    /\ pg_res = NoRes
    /\ MainInit
    /\ inited = [s \in Servers |-> TRUE]

\* the caller types one more character of the candidate
PgType ==
    /\ pg_res = NoRes
    /\ Len(pg_cand) < MaxLen
    /\ \E c \in Chars : pg_cand' = Append(pg_cand, c)
    /\ UNCHANGED <<pg_ws, pg_res>>
    /\ UNCHANGED reqvars

\* _ensure_in_workspace(Path(candidate))
PgResolve ==
    /\ pg_res = NoRes
    /\ pg_res' = _ensure_in_workspace(pg_ws, Path(pg_cand))
    /\ UNCHANGED <<pg_ws, pg_cand>>
    /\ UNCHANGED reqvars

PgNext == PgType \/ PgResolve

SpecPath == PgInit /\ [][PgNext]_vars

\* ------------------------------------------------------------------------
\* The inputs of RunActions
\* ------------------------------------------------------------------------

RECURSIVE Xs(_)
\* a string of n one-byte characters
Xs(n) == IF n <= 0 THEN <<>> ELSE <<"x">> \o Xs(n - 1)

\* the action lists two concurrent callers send
PairActionLists == {
    << <<"select-", "all">> >>,
    << <<"select-", "all">>, <<"file-", "open">> >> }

\* the action lists a single caller sends
ActionLists == PairActionLists \cup {
    <<>>,
    << <<"file-", "open">> >>,
    << <<"export-", "filename", ":", "/", "w", "/", "out", ".", "png">>,
       <<"export-", "do">> >> }

DocPaths == {
    <<"a">>,                        \* a file of exactly max_file_size bytes
    <<".", "/", "a">>,              \* the same file, spelled differently
    <<"c">>,                        \* no such file
    <<"big">>,                      \* a file of max_file_size + 1 bytes
    <<".", ".", "/", "w", "w">>,    \* leaves the workspace
    <<>>, NONE }

Svgs == { NONE, Xs(MaxFileSize), Xs(MaxFileSize - 1) \o <<"e'">> }

DocChoices ==
    {[type |-> "file", path |-> p, svg |-> NONE] : p \in DocPaths}
    \cup {[type |-> "inline", path |-> NONE, svg |-> v] : v \in Svgs}

ExportChoices == {
    NoExport,
    [type |-> "png", out |-> <<"out", ".", "png">>, dpi |-> 0, area |-> "page"],
    [type |-> "pdf", out |-> <<".", ".", "/", "o", ".", "pdf">>, dpi |-> 300,
     area |-> "drawing"] }

\* a single caller also names the workspace directory itself, as the
\* document and as the destination
AllDocChoices ==
    DocChoices \cup {[type |-> "file", path |-> <<".">>, svg |-> NONE]}

AllExportChoices ==
    ExportChoices \cup
        {[type |-> "png", out |-> <<".">>, dpi |-> 0, area |-> "page"]}

\* ------------------------------------------------------------------------
\* _action_run_impl, step by step.  A server process runs its requests on one
\* event loop: from the acquisition of the gate slot to the return the code
\* has no await, so it holds the loop (loop[s] = r) and no other request of
\* that server runs meanwhile.
\* ------------------------------------------------------------------------

\* a gate that keeps the slot on exit
ReleaseLeak(s) == sem

\* the exit of "async with SEM": the slot of server s is given back
Release(s) == [sem EXCEPT ![s] = @ + 1]

\* a call that goes to the gate first and validates under it
CallGateFirst(r, lists, timeouts) ==
    /\ pc[r] = "idle"
    /\ \E s \in (IF r = 1 THEN {1} ELSE DOMAIN sem), a \in lists, t \in timeouts :
        /\ loop[s] = 0
        /\ srv' = [srv EXCEPT ![r] = s]
        /\ actions' = [actions EXCEPT ![r] = a]
        /\ timeout_s' = [timeout_s EXCEPT ![r] = t]
        /\ timeout' = [timeout EXCEPT ![r] = TimeoutOf(t)]
        /\ pc' = [pc EXCEPT ![r] = "gate"]
    /\ UNCHANGED <<pgvars, cfgvars, histvars, listvars, loop, sem, doc, export, infile, final_export,
                   tmp_export, exc, expired, result, locks, fs, proc>>

\* the call: the test of CFG and SEM, then RunArgs(...) validates the whole
\* action list, and the bound of the engine wait is chosen, before the gate
Call(r, lists, timeouts) ==
    /\ pc[r] = "idle"
    /\ \E s \in (IF r = 1 THEN {1} ELSE DOMAIN sem), a \in lists, t \in timeouts :
        /\ loop[s] = 0
        /\ srv' = [srv EXCEPT ![r] = s]
        /\ actions' = [actions EXCEPT ![r] = a]
        /\ timeout_s' = [timeout_s EXCEPT ![r] = t]
        /\ timeout' = [timeout EXCEPT ![r] =
                          IF inited[s] /\ validate_actions(a) THEN TimeoutOf(t) ELSE 0]
        /\ IF ~inited[s]
           THEN /\ pc' = [pc EXCEPT ![r] = "done"]
                /\ result' = [result EXCEPT ![r] = [kind |-> "NotInitialized", out |-> NONE,
                                                  msg |-> Message("NotInitialized")]]
           ELSE IF validate_actions(a)
           THEN /\ pc' = [pc EXCEPT ![r] = "gate"]
                /\ result' = result
           ELSE /\ pc' = [pc EXCEPT ![r] = "done"]
                /\ result' = [result EXCEPT ![r] = [kind |-> "UnsafeAction", out |-> NONE,
                                                  msg |-> Message("UnsafeAction")]]
    /\ UNCHANGED <<pgvars, cfgvars, histvars, listvars, loop, sem, doc, export, infile, final_export,
                   tmp_export, exc, expired, locks, fs, proc>>

\* a gate that admits without looking at the free slots
AcquireNoWait(r) ==
    /\ pc[r] = "gate"
    /\ loop[srv[r]] = 0
    /\ sem' = [sem EXCEPT ![srv[r]] = @ - 1]
    /\ pc' = [pc EXCEPT ![r] = "admitted"]
    /\ UNCHANGED <<pgvars, cfgvars, histvars, argvars, listvars, srv, loop, actions, doc, export, infile, final_export,
                   tmp_export, exc, expired, result, locks, fs, proc>>

\* async with SEM: a slot is taken when one is free
Acquire(r) ==
    /\ pc[r] = "gate"
    /\ loop[srv[r]] = 0
    /\ sem[srv[r]] > 0
    /\ sem' = [sem EXCEPT ![srv[r]] = @ - 1]
    /\ pc' = [pc EXCEPT ![r] = "admitted"]
    /\ UNCHANGED <<pgvars, cfgvars, histvars, argvars, listvars, srv, loop, actions, doc, export, infile, final_export,
                   tmp_export, exc, expired, result, locks, fs, proc>>

\* a size check that also refuses a document of exactly the maximum size
ResolveKindGe(d) ==
    IF d.type = "file"
    THEN IF d.path = NONE \/ d.path = <<>> THEN "MissingFilePath"
         ELSE LET e == _ensure_in_workspace(Workspace, Path(d.path))
              IN  IF ~e.ok THEN "PathEscape"
                  ELSE IF ~Exists(e.path) THEN "NotFound"
                  ELSE IF SizeOf(e.path) >= MaxFileSize THEN "TooLarge"
                  ELSE "ok"
    ELSE IF d.svg = NONE THEN "MissingContent"
         ELSE IF Utf8Len(d.svg) >= MaxFileSize THEN "TooLarge"
         ELSE "ok"

\* what "Resolve input" gives for document d: an error kind or "ok"
ResolveKind(d) ==
    IF d.type = "file"
    THEN IF d.path = NONE \/ d.path = <<>> THEN "MissingFilePath"
         ELSE LET e == _ensure_in_workspace(Workspace, Path(d.path))
              IN  IF ~e.ok THEN "PathEscape"
                  ELSE IF ~Exists(e.path) THEN "NotFound"
                  ELSE IF SizeOf(e.path) > MaxFileSize THEN "TooLarge"
                  ELSE "ok"
    ELSE IF d.svg = NONE THEN "MissingContent"
         ELSE IF Utf8Len(d.svg) > MaxFileSize THEN "TooLarge"
         ELSE "ok"

\* Resolve input: _ensure_in_workspace and _check_size, or _write_inline.
\* An error here is raised inside "async with SEM" and outside the try block.
ResolveInput(r, docs) ==
    /\ pc[r] = "admitted"
    /\ loop[srv[r]] = 0
    /\ \E d \in docs :
        LET kind == ResolveKind(d)
            path == IF d.type = "file"
                    THEN _ensure_in_workspace(Workspace, Path(d.path)).path
                    ELSE InlinePath(Workspace, r)
        IN  /\ doc' = [doc EXCEPT ![r] = d]
            /\ IF kind = "ok"
               THEN /\ infile' = [infile EXCEPT ![r] = path]
                    /\ fs' = IF d.type = "inline" THEN Put(fs, path, InlineFile(r)) ELSE fs
                    /\ loop' = [loop EXCEPT ![srv[r]] = r]
                    /\ pc' = [pc EXCEPT ![r] = "input"]
                    /\ UNCHANGED <<sem, result>>
               ELSE /\ result' = [result EXCEPT ![r] = [kind |-> kind, out |-> NONE,
                                                  msg |-> Message(kind)]]
                    /\ sem' = Release(srv[r])
                    /\ pc' = [pc EXCEPT ![r] = "done"]
                    /\ UNCHANGED <<infile, fs, loop>>
    /\ UNCHANGED <<pgvars, cfgvars, histvars, argvars, listvars, srv, actions, export, final_export, tmp_export, exc, expired,
                   locks, proc>>

\* Prepare export temp.  The path-escape error of the destination is raised
\* before the try block: the finally clause does not run for it.
PrepareExport(r, exports) ==
    /\ pc[r] = "input"
    /\ \E e \in exports :
        LET g == _ensure_in_workspace(Workspace, Path(e.out))
        IN  /\ export' = [export EXCEPT ![r] = e]
            /\ IF e = NoExport \/ g.ok
               THEN /\ final_export' = [final_export EXCEPT ![r] =
                                            IF e = NoExport THEN NoPath ELSE g.path]
                    /\ tmp_export' = [tmp_export EXCEPT ![r] =
                                            IF e = NoExport THEN NoPath
                                            ELSE TmpExport(g.path, r)]
                    /\ pc' = [pc EXCEPT ![r] = "ready"]
                    /\ UNCHANGED <<sem, loop, result>>
               ELSE /\ result' = [result EXCEPT ![r] = [kind |-> "PathEscape", out |-> NONE,
                                                  msg |-> Message("PathEscape")]]
                    /\ sem' = Release(srv[r])
                    /\ loop' = [loop EXCEPT ![srv[r]] = 0]
                    /\ pc' = [pc EXCEPT ![r] = "done"]
                    /\ UNCHANGED <<final_export, tmp_export>>
    /\ UNCHANGED <<pgvars, cfgvars, histvars, argvars, listvars, srv, actions, doc, infile, exc, expired, locks, fs, proc>>

\* lock_path: the input of a File request, nothing for an Inline one
HasLock(r) == doc[r].type = "file"

\* a lock that is entered without waiting for its holder
AcquireLockBlind(r) ==
    /\ pc[r] = "ready"
    /\ HasLock(r)
    /\ locks' = locks \cup {LockPath(infile[r])}
    /\ fs' = Put(fs, LockPath(infile[r]), LockFile)
    /\ pc' = [pc EXCEPT ![r] = "locked"]
    /\ UNCHANGED <<pgvars, cfgvars, histvars, argvars, listvars, srv, loop, sem, actions, doc, export, infile,
                   final_export, tmp_export, exc, expired, result, proc>>

\* with FileLock(str(lock_path) + ".lock"): blocks until the lock is free
AcquireLock(r) ==
    /\ pc[r] = "ready"
    /\ HasLock(r)
    /\ LockPath(infile[r]) \notin locks
    /\ locks' = locks \cup {LockPath(infile[r])}
    /\ fs' = Put(fs, LockPath(infile[r]), LockFile)
    /\ pc' = [pc EXCEPT ![r] = "locked"]
    /\ UNCHANGED <<pgvars, cfgvars, histvars, argvars, listvars, srv, loop, sem, actions, doc, export, infile,
                   final_export, tmp_export, exc, expired, result, proc>>

\* FileLock.acquire finds the lock held: it sleeps for poll_interval and
\* tries again, and so on; the request has started to wait
LockBusy(r) ==
    /\ pc[r] = "ready"
    /\ HasLock(r)
    /\ LockPath(infile[r]) \in locks
    /\ \A i \in 1..Len(arrival) : arrival[i] # r
    /\ arrival' = Append(arrival, r)
    /\ UNCHANGED <<pgvars, cfgvars, argvars, listvars, pc, srv, loop, sem, actions, doc, export,
                   infile, final_export, tmp_export, exc, expired, result, locks, fs, proc>>

\* a "with FileLock" block that keeps the lock when the wait timed out
UnlockedUnlessExpired(r) ==
    IF expired[r] THEN locks
    ELSE IF HasLock(r) THEN locks \ {LockPath(infile[r])} ELSE locks

\* a "with FileLock" block that keeps the lock on exit
UnlockedKeep(r) == locks

\* the locks after request r left its "with FileLock" block
Unlocked(r) == IF HasLock(r) THEN locks \ {LockPath(infile[r])} ELSE locks

\* a Popen that is also called again after an engine that failed
SpawnRetry(r) ==
    /\ \/ pc[r] = "locked"
       \/ pc[r] = "ready" /\ ~HasLock(r)
       \/ pc[r] = "unlocked" /\ proc[r].leader = "reaped" /\ proc[r].code # 0
    /\ proc' = [proc EXCEPT ![r] =
            [NoProc EXCEPT !.leader = "running",
                           !.cmd = _mk_cmd(infile[r], actions[r], export[r],
                                           tmp_export[r])]]
    /\ pc' = [pc EXCEPT ![r] = "wait"]
    /\ UNCHANGED <<pgvars, cfgvars, histvars, argvars, listvars, exc, locks, expired, srv, loop, sem,
                   actions, doc, export, infile, final_export, tmp_export, result, fs>>

\* subprocess.Popen(cmd, ...): the engine starts, or Popen raises
Spawn(r) ==
    /\ \/ pc[r] = "locked"
       \/ pc[r] = "ready" /\ ~HasLock(r)
    /\ \E started \in BOOLEAN :
        IF started
        THEN /\ proc' = [proc EXCEPT ![r] =
                    [NoProc EXCEPT !.leader = "running",
                                   !.cmd = _mk_cmd(infile[r], actions[r], export[r],
                                                   tmp_export[r])]]
             /\ pc' = [pc EXCEPT ![r] = "wait"]
             /\ UNCHANGED <<exc, locks>>
        ELSE /\ exc' = [exc EXCEPT ![r] = "SpawnFailed"]
             /\ locks' = Unlocked(r)
             /\ pc' = [pc EXCEPT ![r] = "unlocked"]
             /\ UNCHANGED proc
    /\ UNCHANGED <<pgvars, cfgvars, histvars, argvars, listvars, expired, srv, loop, sem, actions, doc, export, infile,
                   final_export, tmp_export, result, fs>>

\* communicate() returns once the leader has exited and both pipes are at
\* end of file, which needs every process that holds them to be gone
Complete(r) == proc[r].leader = "zombie" /\ proc[r].helper # "piped"

\* proc.communicate(timeout=timeout) returns
CommunicateDone(r) ==
    /\ pc[r] = "wait"
    /\ Complete(r)
    /\ proc' = [proc EXCEPT ![r].leader = "reaped"]
    /\ locks' = Unlocked(r)
    /\ pc' = [pc EXCEPT ![r] = "unlocked"]
    /\ UNCHANGED <<pgvars, cfgvars, histvars, argvars, listvars, srv, loop, sem, actions, doc, export, infile,
                   final_export, tmp_export, exc, expired, result, fs>>

\* os.killpg(pid, SIGTERM) on process tree p: every process of the group
\* gets the signal; one that does not catch or ignore it dies of it
Killpg(p) ==
    {[p EXCEPT !.leader = IF leaderDies THEN "zombie" ELSE @,
               !.code = IF leaderDies THEN 1 ELSE @,
               !.wr = IF leaderDies THEN 0 ELSE @,
               !.helper = IF helperDies THEN "none" ELSE @] :
        leaderDies \in {FALSE, p.leader = "running"},
        helperDies \in {FALSE, p.helper # "none"}}

\* a ladder that starts with the force-kill of the leader
TimeoutExpiredKill(r) ==
    /\ pc[r] = "wait"
    /\ ~Complete(r)
    /\ proc' = [proc EXCEPT ![r].leader = IF @ = "running" THEN "zombie" ELSE @,
                            ![r].code = IF proc[r].leader = "running" THEN 1 ELSE @,
                            ![r].wr = 0,
                            ![r].sig = Append(@, SIGKILL)]
    /\ expired' = [expired EXCEPT ![r] = TRUE]
    /\ pc' = [pc EXCEPT ![r] = "grace"]
    /\ UNCHANGED <<pgvars, cfgvars, histvars, argvars, listvars, srv, loop, sem, actions, doc, export, infile,
                   final_export, tmp_export, exc, result, locks, fs>>

\* subprocess.TimeoutExpired: os.killpg(proc.pid, SIGTERM)
TimeoutExpired(r) ==
    /\ pc[r] = "wait"
    /\ ~Complete(r)
    /\ \E p \in Killpg(proc[r]) :
        proc' = [proc EXCEPT ![r] = [p EXCEPT !.sig = Append(@, SIGTERM)]]
    /\ expired' = [expired EXCEPT ![r] = TRUE]
    /\ pc' = [pc EXCEPT ![r] = "grace"]
    /\ UNCHANGED <<pgvars, cfgvars, histvars, argvars, listvars, srv, loop, sem, actions, doc, export, infile,
                   final_export, tmp_export, exc, result, locks, fs>>

\* a grace-period branch that forgets to raise
GraceDoneNoRaise(r) ==
    /\ pc[r] = "grace"
    /\ Complete(r)
    /\ proc' = [proc EXCEPT ![r].leader = "reaped"]
    /\ locks' = Unlocked(r)
    /\ pc' = [pc EXCEPT ![r] = "unlocked"]
    /\ UNCHANGED <<pgvars, cfgvars, histvars, argvars, listvars, expired, srv, loop, sem, actions, doc, export, infile,
                   final_export, tmp_export, exc, result, fs>>

\* proc.communicate(timeout=5) returns: raise ToolError("Operation timed out")
GraceDone(r) ==
    /\ pc[r] = "grace"
    /\ Complete(r)
    /\ proc' = [proc EXCEPT ![r].leader = "reaped"]
    /\ exc' = [exc EXCEPT ![r] = "Timeout"]
    /\ locks' = Unlocked(r)
    /\ pc' = [pc EXCEPT ![r] = "unlocked"]
    /\ UNCHANGED <<pgvars, cfgvars, histvars, argvars, listvars, expired, srv, loop, sem, actions, doc, export, infile,
                   final_export, tmp_export, result, fs>>

\* the grace period expires: proc.kill() signals the leader alone, and
\* Popen.send_signal sends nothing to a leader that has exited
GraceExpired(r) ==
    /\ pc[r] = "grace"
    /\ ~Complete(r)
    /\ proc' = [proc EXCEPT ![r].leader = IF @ = "running" THEN "zombie" ELSE @,
                            ![r].code = IF proc[r].leader = "running" THEN 1 ELSE @,
                            ![r].wr = 0,
                            ![r].sig = IF proc[r].leader = "running"
                                       THEN Append(@, SIGKILL) ELSE @]
    /\ pc' = [pc EXCEPT ![r] = "reap"]
    /\ UNCHANGED <<pgvars, cfgvars, histvars, argvars, listvars, srv, loop, sem, actions, doc, export, infile,
                   final_export, tmp_export, exc, expired, result, locks, fs>>

\* proc.communicate() without a timeout returns: raise ToolError
ReapDone(r) ==
    /\ pc[r] = "reap"
    /\ Complete(r)
    /\ proc' = [proc EXCEPT ![r].leader = "reaped"]
    /\ exc' = [exc EXCEPT ![r] = "Timeout"]
    /\ locks' = Unlocked(r)
    /\ pc' = [pc EXCEPT ![r] = "unlocked"]
    /\ UNCHANGED <<pgvars, cfgvars, histvars, argvars, listvars, expired, srv, loop, sem, actions, doc, export, infile,
                   final_export, tmp_export, result, fs>>

\* a try block that does not look at the engine's return code
OutcomeIgnoreCode(r) ==
    IF exc[r] # "none" THEN exc[r]
    ELSE IF export[r] = NoExport THEN "ok"
    ELSE IF tmp_export[r] \notin DOMAIN fs THEN "ExportMissing"
    ELSE IF final_export[r] \in Dirs THEN "OSError"
    ELSE "ok"

\* what the rest of the try block gives request r
Outcome(r) ==
    IF exc[r] # "none" THEN exc[r]
    ELSE IF proc[r].code # 0 THEN "ExecutionFailed"
    ELSE IF export[r] = NoExport THEN "ok"
    ELSE IF tmp_export[r] \notin DOMAIN fs THEN "ExportMissing"
    ELSE IF final_export[r] \in Dirs THEN "OSError"
    ELSE "ok"

\* os.replace(tmp_export, final_export)
Replace(f, src, dst) == Remove(Put(f, dst, f[src]), src)

\* a finally clause that unlinks the input whatever its kind
CleanupAnyInput(f, r) ==
    LET f1 == Remove(f, infile[r])
    IN  IF tmp_export[r] # NoPath THEN Remove(f1, tmp_export[r]) ELSE f1

\* the finally clause: unlink the inline input and the temporary export
Cleanup(f, r) ==
    LET f1 == IF doc[r].type = "inline" THEN Remove(f, infile[r]) ELSE f
    IN  IF tmp_export[r] # NoPath THEN Remove(f1, tmp_export[r]) ELSE f1

\* a finally clause that forgets the temporary export
CleanupInlineOnly(f, r) ==
    IF doc[r].type = "inline" THEN Remove(f, infile[r]) ELSE f

\* a publication step that never moves the temporary export
PublishNone(f, r) == f

\* a publication that opens the destination before it looks for the
\* temporary export
PublishEager(f, r) ==
    IF exc[r] = "none" /\ proc[r].code = 0 /\ export[r] # NoExport
            /\ final_export[r] \notin Dirs
    THEN IF tmp_export[r] \in DOMAIN f
         THEN Replace(f, tmp_export[r], final_export[r])
         ELSE Put(f, final_export[r], Partial(r))
    ELSE f

\* the file system after the publication step of request r
Publish(f, r) ==
    IF Outcome(r) = "ok" /\ export[r] # NoExport
    THEN Replace(f, tmp_export[r], final_export[r])
    ELSE f

\* a return that also leaves the gate from inside the "with FileLock" block
FinishLocked(r) ==
    /\ pc[r] \in {"unlocked", "locked"}
    /\ fs' = Cleanup(Publish(fs, r), r)
    /\ result' = [result EXCEPT ![r] =
            [kind |-> Outcome(r),
             out |-> IF Outcome(r) = "ok" /\ export[r] # NoExport
                     THEN Str(final_export[r]) ELSE NONE,
             msg |-> Message(Outcome(r))]]
    /\ sem' = Release(srv[r])
    /\ loop' = [loop EXCEPT ![srv[r]] = 0]
    /\ pc' = [pc EXCEPT ![r] = "done"]
    /\ UNCHANGED <<pgvars, cfgvars, histvars, argvars, listvars, srv, actions, doc, export, infile, final_export,
                   tmp_export, exc, expired, locks, proc>>

\* After the lock: the return code check, the atomic move of the export, the
\* return value, the finally clause and the release of the gate slot.
Finish(r) ==
    /\ pc[r] = "unlocked"
    /\ fs' = Cleanup(Publish(fs, r), r)
    /\ result' = [result EXCEPT ![r] =
            [kind |-> Outcome(r),
             out |-> IF Outcome(r) = "ok" /\ export[r] # NoExport
                     THEN Str(final_export[r]) ELSE NONE,
             msg |-> Message(Outcome(r))]]
    /\ sem' = Release(srv[r])
    /\ loop' = [loop EXCEPT ![srv[r]] = 0]
    /\ pc' = [pc EXCEPT ![r] = "done"]
    /\ UNCHANGED <<pgvars, cfgvars, histvars, argvars, listvars, srv, actions, doc, export, infile, final_export,
                   tmp_export, exc, expired, locks, proc>>

\* ------------------------------------------------------------------------
\* The engine: the process Popen started and the helpers it starts
\* ------------------------------------------------------------------------

Targets(r) ==
    EngineTargets(EngineActions(proc[r].cmd.actions), NoPath, proc[r].cmd.infile)

\* the engine writes its next output file: first a part of it, then all
EngineWrite(r) ==
    /\ proc[r].leader = "running"
    /\ proc[r].wr < 2 * Len(Targets(r))
    /\ LET t == Targets(r)[(proc[r].wr \div 2) + 1]
       IN  fs' = Put(fs, t, IF proc[r].wr % 2 = 0 THEN Partial(r) ELSE Full(r))
    /\ proc' = [proc EXCEPT ![r].wr = @ + 1]
    /\ UNCHANGED <<pgvars, cfgvars, histvars, argvars, listvars, pc, srv, loop, sem, actions, doc, export, infile,
                   final_export, tmp_export, exc, expired, result, locks>>

\* the engine starts a helper in its process group: one that keeps the
\* inherited stdout/stderr pipes open, or one that has closed them
EngineFork(r) ==
    /\ proc[r].leader = "running"
    /\ proc[r].helper = "none"
    /\ \E h \in {"piped", "detached"} : proc' = [proc EXCEPT ![r].helper = h]
    /\ UNCHANGED <<pgvars, cfgvars, histvars, argvars, listvars, pc, srv, loop, sem, actions, doc, export, infile,
                   final_export, tmp_export, exc, expired, result, locks, fs>>

\* the engine exits by itself: with 0 only between two writes, with 1 at any
\* time and then with a diagnostic on its stderr
EngineExit(r) ==
    /\ proc[r].leader = "running"
    /\ \E code \in {0, 1} :
        /\ code = 0 => proc[r].wr % 2 = 0
        /\ proc' = [proc EXCEPT ![r].leader = "zombie", ![r].code = code, ![r].wr = 0,
                                ![r].err = IF code = 0 THEN "" ELSE "diagnostic"]
    /\ UNCHANGED <<pgvars, cfgvars, histvars, argvars, listvars, pc, srv, loop, sem, actions, doc, export, infile,
                   final_export, tmp_export, exc, expired, result, locks, fs>>

\* a helper exits by itself
HelperExit(r) ==
    /\ proc[r].helper \in {"piped", "detached"}
    /\ proc' = [proc EXCEPT ![r].helper = "none"]
    /\ UNCHANGED <<pgvars, cfgvars, histvars, argvars, listvars, pc, srv, loop, sem, actions, doc, export, infile,
                   final_export, tmp_export, exc, expired, result, locks, fs>>

\* ------------------------------------------------------------------------
\* _action_list_impl: the ListActions call of server 1.  Its wait for the
\* engine is an await: the event loop stays free meanwhile.
\* ------------------------------------------------------------------------

\* an entry of ListActions that does not look at SEM
ListCallBlind ==
    /\ lpc = "idle"
    /\ loop[1] = 0
    /\ lpc' = "gate"
    /\ UNCHANGED <<pgvars, cfgvars, histvars, argvars, lres, lproc, lout, lprev, sem, pc, srv, loop, actions,
                   doc, export, infile, final_export, tmp_export, exc, expired, result,
                   locks, fs, proc>>

\* _action_list_impl is entered: SEM is None before _init_config has run
ListCall ==
    /\ lpc = "idle"
    /\ loop[1] = 0
    /\ IF inited[1]
       THEN lpc' = "gate" /\ lres' = lres
       ELSE lpc' = "done" /\ lres' = [NoLres EXCEPT !.kind = "NotInitialized"]
    /\ UNCHANGED <<pgvars, cfgvars, histvars, argvars, lproc, lout, lprev, sem, pc, srv, loop, actions, doc, export, infile,
                   final_export, tmp_export, exc, expired, result, locks, fs, proc>>

\* the caller calls ListActions once more, after the first call returned
ListCallAgain ==
    /\ lpc = "done"
    /\ lprev = NoLres
    /\ loop[1] = 0
    /\ lprev' = lres
    /\ lproc' = "none"
    /\ IF inited[1]
       THEN lpc' = "gate" /\ lres' = NoLres
       ELSE lpc' = "done" /\ lres' = [NoLres EXCEPT !.kind = "NotInitialized"]
    /\ UNCHANGED <<pgvars, cfgvars, histvars, argvars, lout, sem, pc, srv, loop, actions, doc, export, infile,
                   final_export, tmp_export, exc, expired, result, locks, fs, proc>>

\* async with SEM
ListAcquire ==
    /\ lpc = "gate"
    /\ loop[1] = 0
    /\ sem[1] > 0
    /\ sem' = [sem EXCEPT ![1] = @ - 1]
    /\ lpc' = "admitted"
    /\ UNCHANGED <<pgvars, cfgvars, histvars, argvars, lres, lproc, lout, lprev, pc, srv, loop, actions, doc, export, infile,
                   final_export, tmp_export, exc, expired, result, locks, fs, proc>>

\* anyio.run_process(["inkscape", "--action-list"]) starts the engine, or
\* raises; the engine that is installed gives one answer, every time
ListSpawn(outs) ==
    /\ lpc = "admitted"
    /\ loop[1] = 0
    /\ \E started \in BOOLEAN, o \in (IF lout = Unset THEN outs ELSE {lout}) :
        IF started
        THEN /\ lpc' = "run"
             /\ lproc' = "running"
             /\ lout' = o
             /\ UNCHANGED <<lres, sem>>
        ELSE /\ lpc' = "done"
             /\ lres' = [NoLres EXCEPT !.kind = "SpawnFailed"]
             /\ sem' = Release(1)
             /\ UNCHANGED <<lproc, lout>>
    /\ UNCHANGED <<pgvars, cfgvars, histvars, argvars, lprev, pc, srv, loop, actions, doc, export, infile,
                   final_export, tmp_export, exc, expired, result, locks, fs, proc>>

\* the enumeration ends by itself, with exit code 0 or 1
ListEngineExit ==
    /\ lproc = "running"
    /\ \E code \in {"exit0", "exit1"} : lproc' = code
    /\ UNCHANGED <<pgvars, cfgvars, histvars, argvars, lpc, lres, lout, lprev, sem, pc, srv, loop, actions, doc, export, infile,
                   final_export, tmp_export, exc, expired, result, locks, fs, proc>>

\* a ListActions that gives its answer once and nothing afterwards
ListDoneOnce ==
    /\ lpc = "run"
    /\ loop[1] = 0
    /\ lproc \in {"exit0", "exit1"}
    /\ lres' = IF lproc = "exit0"
               THEN [kind |-> "ok",
                     items |-> IF lprev.kind = "ok" THEN <<>> ELSE ParseList(lout)]
               ELSE [NoLres EXCEPT !.kind = "CalledProcessError"]
    /\ lpc' = "done"
    /\ sem' = Release(1)
    /\ UNCHANGED <<pgvars, cfgvars, histvars, argvars, lproc, lout, lprev, pc, srv, loop, actions, doc, export,
                   infile, final_export, tmp_export, exc, expired, result, locks, fs, proc>>

\* run_process returns: with check=True (its default) it raises
\* CalledProcessError for a non-zero exit code, so the test of p.returncode
\* that follows sees 0 only; then the output is parsed and returned
ListDone ==
    /\ lpc = "run"
    /\ loop[1] = 0
    /\ lproc \in {"exit0", "exit1"}
    /\ lres' = IF lproc = "exit0"
               THEN [kind |-> "ok", items |-> ParseList(lout)]
               ELSE [NoLres EXCEPT !.kind = "CalledProcessError"]
    /\ lpc' = "done"
    /\ sem' = Release(1)
    /\ UNCHANGED <<pgvars, cfgvars, histvars, argvars, lproc, lout, lprev, pc, srv, loop, actions, doc, export, infile,
                   final_export, tmp_export, exc, expired, result, locks, fs, proc>>

\* anyio.fail_after(5) expires while the engine runs: run_process kills and
\* reaps it, TimeoutError becomes ToolError("action-list timeout")
ListTimeout ==
    /\ lpc = "run"
    /\ loop[1] = 0
    /\ lproc = "running"
    /\ lproc' = "killed"
    /\ lres' = [NoLres EXCEPT !.kind = "Timeout"]
    /\ lpc' = "done"
    /\ sem' = Release(1)
    /\ UNCHANGED <<pgvars, cfgvars, histvars, argvars, lout, lprev, pc, srv, loop, actions, doc, export, infile,
                   final_export, tmp_export, exc, expired, result, locks, fs, proc>>

\* a step the server takes for the call of request r after its validation
OrchStep(r, docs, exports) ==
    \/ Acquire(r)
    \/ ResolveInput(r, docs)
    \/ PrepareExport(r, exports)
    \/ AcquireLock(r)
    \/ Spawn(r)
    \/ CommunicateDone(r)
    \/ TimeoutExpired(r)
    \/ GraceDone(r)
    \/ GraceExpired(r)
    \/ ReapDone(r)
    \/ Finish(r)

\* a step of the engine of request r or of its helper
EngineStep(r) ==
    \/ EngineWrite(r)
    \/ EngineFork(r)
    \/ EngineExit(r)
    \/ HelperExit(r)

\* a step of the call of request r after its validation
RunStep(r, docs, exports) == OrchStep(r, docs, exports) \/ EngineStep(r)

\* a step the server takes for the ListActions call after its entry
ListStep(outs) ==
    \/ ListAcquire
    \/ ListSpawn(outs)
    \/ ListDone
    \/ ListTimeout

\* main() runs _init_config before it serves: CFG and SEM are set
InitConfig ==
    /\ ~inited[1]
    /\ inited' = [inited EXCEPT ![1] = TRUE]
    /\ sem' = [sem EXCEPT ![1] = MaxConcurrent]
    /\ UNCHANGED <<pgvars, histvars, argvars, listvars, pc, srv, loop, actions, doc, export, infile,
                   final_export, tmp_export, exc, expired, result, locks, fs, proc>>

\* two callers of RunActions, on one server process or on two
Next ==
    \E r \in Reqs :
        Call(r, PairActionLists, {NoTimeout}) \/ RunStep(r, DocChoices, ExportChoices)

\* one caller of RunActions with every input, and one of ListActions, on
\* one server process
NextSingle ==
    \/ Call(1, ActionLists, {NoTimeout})
    \/ RunStep(1, AllDocChoices, AllExportChoices)
    \/ ListCall
    \/ ListStep({PlainOutput})
    \/ ListEngineExit

\* one caller of RunActions that gives every kind of timeout_s
NextTimeout ==
    \/ Call(1, PairActionLists, Timeouts)
    \/ RunStep(1, DocChoices, ExportChoices)

\* three callers on three server processes ask for the same file
Contenders == {1, 2, 3}
NextQueue ==
    \E r \in Contenders :
        \/ Call(r, {<< <<"select-", "all">> >>}, {NoTimeout})
        \/ OrchStep(r, {[type |-> "file", path |-> <<"a">>, svg |-> NONE]}, {NoExport})
        \/ LockBusy(r)
        \/ EngineExit(r)

\* the action lists and exports of a caller whose arguments and names
\* hold separators of the engine's command language
CmdActionLists == {
    <<>>,
    << <<"select-", "all">> >>,
    << <<"path-", "union">> >>,
    << <<"transform-", "rotate", ":", "9">>, <<"query-", "x">> >>,
    << <<"select-", "by-id", ":", "x", ";", "file-", "open">> >>,
    << <<"export-", "filename", ":", "/", "e">>, <<"export-", "do">> >> }

CmdExports == {
    NoExport,
    [type |-> "png", out |-> <<"out", ".", "png">>, dpi |-> 0, area |-> "page"],
    [type |-> "pdf", out |-> <<"o", ".", "pdf">>, dpi |-> 300, area |-> "drawing"],
    [type |-> "png", out |-> <<"x", ";", "file-", "open">>, dpi |-> 0, area |-> "page"] }

\* one caller of RunActions with those action lists and exports
NextCmd ==
    \/ Call(1, CmdActionLists, {NoTimeout})
    \/ RunStep(1, DocChoices, CmdExports)

\* the calls a server gets before and after main() has initialised it
NextBoot == NextSingle \/ InitConfig

\* two ListActions calls in a row over every answer of the engine, beside
\* one RunActions call
NextList ==
    \/ ListCall
    \/ ListCallAgain
    \/ ListStep(ListOutputs)
    \/ ListEngineExit
    \/ Call(1, PairActionLists, {NoTimeout})
    \/ RunStep(1, DocChoices, ExportChoices)

Init ==
    /\ pg_ws = Workspace
    /\ pg_cand = <<>>
    /\ pg_res = NoRes
    /\ MainInit
    /\ inited = [s \in Servers |-> TRUE]

\* the state of servers with the given free slots and initialisation
BootOf(reqs, slots, ini) ==
    /\ pg_ws = Workspace
    /\ pg_cand = <<>>
    /\ pg_res = NoRes
    /\ pc = [r \in reqs |-> "idle"]
    /\ srv = [r \in reqs |-> 0]
    /\ loop = [s \in DOMAIN slots |-> 0]
    /\ sem = slots
    /\ actions = [r \in reqs |-> <<>>]
    /\ doc = [r \in reqs |-> NoDoc]
    /\ export = [r \in reqs |-> NoExport]
    /\ infile = [r \in reqs |-> NoPath]
    /\ final_export = [r \in reqs |-> NoPath]
    /\ tmp_export = [r \in reqs |-> NoPath]
    /\ exc = [r \in reqs |-> "none"]
    /\ expired = [r \in reqs |-> FALSE]
    /\ result = [r \in reqs |-> NoResult]
    /\ locks = {}
    /\ fs = ( << <<"w">>, <<"a">> >> :> Orig ) @@ ( << <<"w">>, <<"big">> >> :> Orig )
    /\ proc = [r \in reqs |-> NoProc]
    /\ lpc = "idle"
    /\ lres = NoLres
    /\ lproc = "none"
    /\ lout = Unset
    /\ lprev = NoLres
    /\ timeout_s = [r \in reqs |-> NoTimeout]
    /\ timeout = [r \in reqs |-> 0]
    /\ arrival = <<>>
    /\ inited = ini

\* the same for the two requests of the other specifications
Boot(slots, ini) == BootOf(Reqs, slots, ini)

\* server 1 has not run _init_config yet: SEM is None
InitBoot ==
    Boot([s \in Servers |-> IF s = 1 THEN 0 ELSE MaxConcurrent], [s \in Servers |-> s # 1])

\* servers configured with one slot more: max_concurrent >= 2
WideGate == MaxConcurrent + 1
InitWide == Boot([s \in Servers |-> WideGate], [s \in Servers |-> TRUE])

Spec == Init /\ [][Next]_vars

SpecSingle == Init /\ [][NextSingle]_vars

SpecBoot == InitBoot /\ [][NextBoot]_vars

SpecList == Init /\ [][NextList]_vars

SpecWide == InitWide /\ [][Next]_vars

SpecTimeout == Init /\ [][NextTimeout]_vars

SpecCmd == Init /\ [][NextCmd]_vars

InitQueue ==
    BootOf(Contenders, [s \in Contenders |-> MaxConcurrent], [s \in Contenders |-> TRUE])

SpecQueue == InitQueue /\ [][NextQueue]_vars

\* The server's own steps are taken when they can be: the event loop runs a
\* coroutine that is ready, a timeout that is due expires, a wait whose
\* condition holds returns.  Nothing makes an engine or a helper exit.
SpecLive ==
    /\ Init
    /\ [][NextSingle]_vars
    /\ WF_vars(OrchStep(1, AllDocChoices, AllExportChoices))
    /\ WF_vars(ListStep({PlainOutput}))

\* ------------------------------------------------------------------------
\* Path guard: claims
\* ------------------------------------------------------------------------

\* path q is anc or lies below it, segment by segment
IsUnder(q, anc) ==
    /\ Len(anc) <= Len(q)
    /\ SubSeq(q, 1, Len(anc)) = anc

\* the canonical form of the candidate and of the root, segment by segment
PgCanon == Realpath(<<>>, JoinPath(pg_ws, Path(pg_cand)))
PgRoot == Realpath(<<>>, pg_ws)
PgResolved == pg_res # NoRes

\* C2: a candidate whose canonical form is neither the workspace root nor a
\* descendant of it (segment-wise) is refused with a path-escape error.
C2_EscapeRejected ==
    (PgResolved /\ ~IsUnder(PgCanon, PgRoot))
        => (~pg_res.ok /\ pg_res.err = "PathEscape")

\* C2 witness: under the workspace /w the absolute candidate /ww, a sibling
\* whose name has the root's name as a string prefix, has been refused.
C2_Witness ==
    /\ pg_ws = << <<"w">> >>
    /\ pg_cand = <<"/", "w", "w">>
    /\ PgResolved /\ ~pg_res.ok

\* C3 (as claimed): a candidate whose canonical form is the workspace root or
\* a descendant of it resolves, to that canonical form.  It fails when the
\* workspace is the root of the file system: str("/") + os.sep is "//".
C3_InsideAccepted ==
    (PgResolved /\ IsUnder(PgCanon, PgRoot))
        => (pg_res.ok /\ pg_res.path = PgCanon)

\* ------------------------------------------------------------------------
\* RunActions: claims
\* ------------------------------------------------------------------------

\* some token of v has an identifier outside the allowlist
HasUnsafe(v) == \E i \in 1..Len(v) : BeforeFirst(v[i], ":") \notin SAFE_ACTIONS

\* request r has created no file and started no process
NoEffect(r) ==
    /\ proc[r] = NoProc
    /\ infile[r] = NoPath
    /\ \A p \in DOMAIN fs : fs[p].by # r

\* C1: a request whose action list holds a token with an identifier outside
\* the allowlist has failed with the unsafe-action error as soon as it is
\* called, whatever the position of the token; it has acquired no gate slot,
\* started no engine and created no file.
C1_UnsafeRejected ==
    \A r \in Reqs :
        (pc[r] # "idle" /\ HasUnsafe(actions[r]))
            => /\ pc[r] = "done"
               /\ result[r].kind = "UnsafeAction"
               /\ doc[r] = NoDoc
               /\ NoEffect(r)

\* C1 witness: a list whose first token is allowed and whose second is not
\* has been rejected.
C1_Witness ==
    /\ actions[1] = << <<"select-", "all">>, <<"file-", "open">> >>
    /\ result[1].kind = "UnsafeAction"

\* the engine of request r is between its spawn and the return of the last
\* communicate()
InWindow(r) == pc[r] \in {"wait", "grace", "reap"} \/ proc[r].leader = "running"

\* C4: two File requests that resolve to the same input never have their
\* engines running at the same time.
C4_NoOverlap ==
    \A r1, r2 \in Reqs :
        (r1 # r2 /\ doc[r1].type = "file" /\ doc[r2].type = "file"
            /\ infile[r1] = infile[r2])
            => ~(InWindow(r1) /\ InWindow(r2))

\* C4 witness: two callers spelled the same file differently; the engine of
\* one runs while the other waits for the lock.
C4_Witness ==
    /\ doc[1].type = "file" /\ doc[2].type = "file"
    /\ doc[1].path # doc[2].path
    /\ infile[1] = infile[2]
    /\ proc[1].leader = "running"
    /\ pc[2] = "ready"

\* C5 (as claimed): the file at the export destination of a request is what
\* it was before or a complete output, never a partly written one.
C5_DestOldOrComplete ==
    \A r \in Reqs :
        (final_export[r] # NoPath /\ final_export[r] \in DOMAIN fs)
            => fs[final_export[r]].k # "part"

\* C6 (as claimed): when the call has returned, neither the temporary file
\* of an inline document nor the temporary export file exists.
C6_NoTempAfterReturn ==
    \A r \in Reqs :
        pc[r] = "done"
            => /\ InlinePath(Workspace, r) \notin DOMAIN fs
               /\ tmp_export[r] # NoPath => tmp_export[r] \notin DOMAIN fs

ValidationErrors ==
    {"UnsafeAction", "MissingFilePath", "PathEscape", "NotFound", "TooLarge",
     "MissingContent"}

\* C7 (as claimed): a request that validation rejected has started no engine
\* and has left no file of its own in the workspace.
C7_ValidationNoEffect ==
    \A r \in Reqs :
        (pc[r] = "done" /\ result[r].kind \in ValidationErrors)
            => /\ proc[r] = NoProc
               /\ \A p \in DOMAIN fs : fs[p].by # r

\* the step of request r leaves the file at its destination as it is
DestUnchanged(r) ==
    \/ final_export[r] = NoPath
    \/ /\ (final_export[r] \in DOMAIN fs') = (final_export[r] \in DOMAIN fs)
       /\ final_export[r] \in DOMAIN fs => fs'[final_export[r]] = fs[final_export[r]]

\* C8: a request whose wait for the engine timed out returns the timeout
\* error, whatever the engine's exit code, and its return publishes nothing.
C8_TimeoutSurfaced ==
    [][\A r \in Reqs :
          (pc[r] # "done" /\ pc'[r] = "done" /\ expired[r])
              => (result'[r].kind = "Timeout" /\ DestUnchanged(r))]_vars

\* C8 witness: the engine exited with code 0 during the grace period, it had
\* written the temporary export, and the request returned the timeout error.
C8_Witness ==
    /\ pc[1] = "done" /\ expired[1]
    /\ proc[1].code = 0
    /\ export[1] # NoExport
    /\ result[1].kind = "Timeout"

\* C9 (as claimed): after a timed-out request has returned, the leader is
\* reaped and no process of the engine's tree runs.
C9_NoProcessLeft ==
    \A r \in Reqs :
        (pc[r] = "done" /\ expired[r])
            => (proc[r].leader = "reaped" /\ proc[r].helper = "none")

\* the RunActions requests of server s that are inside "async with SEM"
HoldsSlot(s) ==
    {r \in Reqs : srv[r] = s /\ pc[r] \in {"admitted", "input", "ready", "locked",
                                           "wait", "grace", "reap", "unlocked"}}

\* the ListActions calls of server s that are inside "async with SEM"
ListHoldsSlot(s) == IF s = 1 /\ lpc \in {"admitted", "run"} THEN 1 ELSE 0

\* C10: the free slots of a gate are max_concurrent less the calls that are
\* inside it; a call that has returned, by any path, holds none.
C10_GateReleased ==
    \A s \in Servers :
        sem[s] = MaxConcurrent - Cardinality(HoldsSlot(s)) - ListHoldsSlot(s)

\* C10 witness: the RunActions call has returned the timeout error, the
\* ListActions call has returned an error too, and every slot is free.
C10_Witness ==
    /\ pc[1] = "done" /\ result[1].kind = "Timeout"
    /\ lpc = "done" /\ lres.kind = "CalledProcessError"
    /\ \A s \in Servers : sem[s] = MaxConcurrent


\* the engine processes server s has started and not yet reaped
EnginesOf(s) ==
    Cardinality({r \in Reqs : srv[r] = s /\ proc[r].leader \in {"running", "zombie"}})
        + (IF s = 1 /\ lpc = "run" THEN 1 ELSE 0)

\* C11: on every server at most max_concurrent calls, RunActions and
\* ListActions together, are inside the gated region, and at most
\* max_concurrent engines it started are running.
C11_AtMostMaxInside ==
    \A s \in Servers :
        /\ Cardinality(HoldsSlot(s)) + ListHoldsSlot(s) <= MaxConcurrent
        /\ EnginesOf(s) <= MaxConcurrent
        /\ sem[s] >= 0

\* C11 witness: the gate is full with the ListActions call, whose engine
\* runs, and the RunActions call waits outside it.
C11_Witness ==
    /\ lpc = "run"
    /\ pc[1] = "gate"
    /\ sem[1] = 0


\* the canonical workspace root of the servers
WsRoot == Realpath(<<>>, Workspace)

\* C12 (as claimed): every path the service creates, locks, deletes,
\* renames to or names to the engine as its output is the workspace root or
\* lies below it.  It fails for a document or a destination that resolves to
\* the workspace root itself: the lock file and the temporary export are
\* then siblings of the workspace directory.
C12_Confined ==
    /\ \A p \in locks : IsUnder(p, WsRoot)
    /\ \A r \in Reqs :
        /\ infile[r] # NoPath => IsUnder(infile[r], WsRoot)
        /\ final_export[r] # NoPath => IsUnder(final_export[r], WsRoot)
        /\ tmp_export[r] # NoPath => IsUnder(tmp_export[r], WsRoot)


\* the canonical path a File document names
DocCanon(d) == Realpath(<<>>, JoinPath(Workspace, Path(d.path)))

\* document d is a File document with a path inside the workspace
FileInside(d) ==
    /\ d.type = "file"
    /\ d.path # NONE /\ d.path # <<>>
    /\ IsUnder(DocCanon(d), WsRoot)

\* C13: a File document inside the workspace fails with the not-found error
\* when it does not exist and with the too-large error exactly when its size
\* on disk is above the maximum; an Inline document fails with the too-large
\* error exactly when its UTF-8 length is above the maximum; a document of
\* exactly the maximum size is taken as the input.
C13_SizeLimit ==
    \A r \in Reqs :
        LET d == doc[r]
        IN  /\ FileInside(d) =>
                IF ~Exists(DocCanon(d))
                THEN pc[r] = "done" /\ result[r].kind = "NotFound"
                ELSE IF SizeOf(DocCanon(d)) > MaxFileSize
                THEN pc[r] = "done" /\ result[r].kind = "TooLarge"
                ELSE /\ result[r].kind \notin {"TooLarge", "NotFound"}
                     /\ infile[r] = DocCanon(d)
            /\ (d.type = "inline" /\ d.svg # NONE) =>
                IF Utf8Len(d.svg) > MaxFileSize
                THEN pc[r] = "done" /\ result[r].kind = "TooLarge"
                ELSE /\ result[r].kind \notin {"TooLarge", "NotFound"}
                     /\ infile[r] = InlinePath(Workspace, r)

\* C13 witness: a file of exactly the maximum size was taken and the call
\* succeeded.
C13_Witness ==
    /\ doc[1].type = "file" /\ doc[1].path = <<"a">>
    /\ SizeOf(DocCanon(doc[1])) = MaxFileSize
    /\ pc[1] = "done" /\ result[1].kind = "ok"


C15_ExportPublished ==
    \A r \in Reqs :
        (pc[r] = "done" /\ result[r].kind = "ok" /\ export[r] # NoExport)
            => /\ final_export[r] =
                      Realpath(<<>>, JoinPath(Workspace, Path(export[r].out)))
               /\ final_export[r] \in DOMAIN fs
               /\ fs[final_export[r]] = Full(r)
               /\ tmp_export[r] \notin DOMAIN fs

\* C15 witness: the request asked for out.png, its engine wrote the
\* temporary export and exited with code 0, and the call has succeeded.
C15_Witness ==
    /\ pc[1] = "done" /\ result[1].kind = "ok"
    /\ export[1].out = <<"out", ".", "png">>
    /\ proc[1].code = 0
    /\ << <<"w">>, <<"out", ".", "png">> >> \in DOMAIN fs


\* the engine of request r ran to its end in time and exited with code 0
EngineSucceeded(r) ==
    /\ proc[r].leader = "reaped"
    /\ proc[r].code = 0
    /\ ~expired[r]

\* C16: a call that returned ok = true had an engine that exited with code
\* 0 in time; its output is the canonical destination when an export was
\* requested and null when none was; a call that failed carries no output.
C16_ReturnValue ==
    \A r \in Reqs :
        pc[r] = "done" =>
            IF result[r].kind = "ok"
            THEN /\ EngineSucceeded(r)
                 /\ export[r] = NoExport => result[r].out = NONE
                 /\ export[r] # NoExport =>
                        result[r].out =
                            Str(Realpath(<<>>, JoinPath(Workspace, Path(export[r].out))))
            ELSE result[r].out = NONE

\* C16 witness: an inline document, the action select-all and no export:
\* the call returned ok = true with a null output.
C16_Witness ==
    /\ pc[1] = "done" /\ result[1].kind = "ok"
    /\ doc[1].type = "inline"
    /\ actions[1] = << <<"select-", "all">> >>
    /\ export[1] = NoExport
    /\ result[1].out = NONE


\* C17: no step removes the input file of a File request; a file that a
\* step removes is the temporary input of an Inline request or a temporary
\* export.
C17_InputKept ==
    [][/\ \A r \in Reqs :
            (doc[r].type = "file" /\ infile[r] \in DOMAIN fs)
                => infile[r] \in DOMAIN fs'
       /\ \A p \in DOMAIN fs \ DOMAIN fs' :
            \E r \in Reqs :
                \/ doc[r].type = "inline" /\ p = infile[r]
                \/ p = tmp_export[r]]_vars

\* C17 witness: a File request with an export has timed out and returned,
\* and its input file is still there.
C17_Witness ==
    /\ pc[1] = "done" /\ result[1].kind = "Timeout"
    /\ doc[1].type = "file"
    /\ export[1] # NoExport
    /\ infile[1] \in DOMAIN fs


\* the File requests that are inside their "with FileLock" block
LockHolders ==
    {r \in Reqs : doc[r].type = "file"
                    /\ pc[r] \in {"locked", "wait", "grace", "reap"}}

\* C18: the locks held are exactly those of the File requests between the
\* acquisition and the end of the wait for the engine, so none is held for an
\* Inline request or after a return; the engine of a File request, from the
\* spawn until it is reaped, runs under the lock of its input.
C18_LockWindow ==
    /\ locks = {LockPath(infile[r]) : r \in LockHolders}
    /\ \A r \in Reqs :
        (doc[r].type = "file" /\ proc[r].leader \in {"running", "zombie"})
            => (r \in LockHolders /\ LockPath(infile[r]) \in locks)
    /\ \A r \in Reqs : doc[r].type = "inline" => pc[r] # "locked"

\* C18 witness: the engine of a File request has outlived the grace period
\* and has been force-killed; the lock of the input is still held.
C18_Witness ==
    /\ doc[1].type = "file"
    /\ pc[1] = "reap"
    /\ proc[1].leader = "zombie"
    /\ locks = {LockPath(infile[1])}


\* C19 (as claimed): every call that was made returns, a result or an error,
\* also when the engine and its helpers never exit by themselves.  It fails
\* at the last communicate(), which has no timeout.
C19_EveryCallReturns ==
    /\ (pc[1] = "gate") ~> (pc[1] = "done")
    /\ (lpc = "gate") ~> (lpc = "done")


\* some RunActions call has been made and has not returned
InFlight == \E r \in Reqs : pc[r] \notin {"idle", "done"}

\* C20: whenever a call is in flight, a step of some call, or of the engine
\* a call waits for, can be taken: the calls never all wait for a gate slot
\* or a file lock that another waiting call holds.
C20_NoDeadlock ==
    InFlight => ENABLED (\E r \in Reqs : RunStep(r, DocChoices, ExportChoices))

\* C20 witness: two server processes; the call of one holds the lock of the
\* file and is terminating its engine, the call of the other holds a slot of
\* its own gate and waits for the same lock.
C20_Witness ==
    /\ srv[1] = 1 /\ srv[2] = 2
    /\ doc[1].type = "file" /\ doc[2].type = "file"
    /\ infile[1] = infile[2]
    /\ pc[1] = "grace"
    /\ pc[2] = "ready"
    /\ sem[2] = MaxConcurrent - 1


\* C21: the call of a request with a disallowed action returns the
\* unsafe-action error in the step that makes it, whatever the number of free
\* slots, and leaves every gate as it is; such a request is never at the gate
\* or inside it.
C21_RejectedOutsideGate ==
    [][\A r \in Reqs :
          (pc[r] = "idle" /\ pc'[r] # "idle" /\ HasUnsafe(actions'[r]))
              => /\ pc'[r] = "done"
                 /\ result'[r].kind = "UnsafeAction"
                 /\ sem' = sem]_vars

\* C21 witness: the only slot is held by the ListActions call, whose engine
\* runs, and the request with a disallowed action has been rejected.
C21_Witness ==
    /\ lpc = "run"
    /\ sem[1] = 0
    /\ srv[1] = 1
    /\ pc[1] = "done" /\ result[1].kind = "UnsafeAction"


\* candidate s with every backslash written as the native separator
Native(s) == [i \in 1..Len(s) |-> IF s[i] = "\\" THEN SEP ELSE s[i]]

\* C22 (as claimed): a candidate written with backslashes resolves as the
\* same candidate written with the native separator does, to the same path
\* or to the same path-escape error.  On a POSIX host it does not: the
\* backslash is a character of a file name.
C22_ForeignSeparators ==
    PgResolved => pg_res = _ensure_in_workspace(pg_ws, Path(Native(pg_cand)))


\* text t is one of the pieces of message m
Carries(m, t) == \E i \in DOMAIN m : m[i] = t

\* C23 (as claimed): a request whose engine exited with a non-zero code in
\* time returns the execution-failed error, the error carries what the
\* engine wrote to stderr, and the return publishes nothing.  The error of
\* the code is the fixed text "inkscape failed".
C23_FailureCarriesStderr ==
    [][\A r \in Reqs :
          (/\ pc[r] = "unlocked" /\ pc'[r] = "done"
           /\ exc[r] = "none" /\ proc[r].code # 0)
              => /\ result'[r].kind = "ExecutionFailed"
                 /\ Carries(result'[r].msg, proc[r].err)
                 /\ DestUnchanged(r)]_vars

\* the two parts of C23 that hold: the kind of the error and no publication
C23_FailureKind ==
    [][\A r \in Reqs :
          (/\ pc[r] = "unlocked" /\ pc'[r] = "done"
           /\ exc[r] = "none" /\ proc[r].code # 0)
              => /\ result'[r].kind = "ExecutionFailed"
                 /\ DestUnchanged(r)]_vars


\* ------------------------------------------------------------------------
\* ListActions: outcomes
\* ------------------------------------------------------------------------

\* what a reader of the engine's answer expects ListActions to return
ExpectedItems ==
    IF lout = PlainOutput
    THEN << [id |-> <<"a">>, doc |-> <<"x">>], [id |-> <<"b">>, doc |-> <<"y">>] >>
    ELSE IF lout = NoisyOutput
    THEN << [id |-> <<"b">>, doc |-> <<"y", " ", ":", " ", "z">>],
            [id |-> <<"a">>, doc |-> <<>>] >>
    ELSE <<>>

\* C24: when the wait of ListActions on the enumeration ends, the call
\* fails with a timeout error if the bound of 5 expired on a running
\* engine, fails with an execution-failed error if the engine ended with a
\* non-zero exit code, and otherwise returns the ordered list of id and
\* description parsed from the engine's output.
C24_ListOutcome ==
    [][(lpc = "run" /\ lpc' = "done")
          => /\ lproc = "running" => lres'.kind = "Timeout"
             /\ lproc = "exit1" => lres'.kind = "ExecutionFailed"
             /\ lproc = "exit0" => lres' = [kind |-> "ok", items |-> ExpectedItems]]_vars

\* the timeout and the parsed list of C24, without the non-zero exit
C24_TimeoutAndParse ==
    [][(lpc = "run" /\ lpc' = "done")
          => /\ lproc = "running" => lres'.kind = "Timeout"
             /\ lproc = "exit0" => lres' = [kind |-> "ok", items |-> ExpectedItems]]_vars


\* ------------------------------------------------------------------------
\* Calls before initialisation
\* ------------------------------------------------------------------------

\* C25: a RunActions or ListActions call that enters a server whose
\* configuration and gate are not initialised ends at once with the
\* not-initialised error; the step takes no gate slot, creates no file and
\* no lock, and starts no process.
C25_NotInitialized ==
    [][/\ \A r \in Reqs :
            (pc[r] = "idle" /\ pc'[r] # "idle" /\ ~inited[srv'[r]])
                => /\ pc'[r] = "done"
                   /\ result'[r].kind = "NotInitialized"
                   /\ sem' = sem /\ fs' = fs /\ locks' = locks /\ proc' = proc
       /\ (lpc = "idle" /\ lpc' # "idle" /\ ~inited[1])
                => /\ lpc' = "done"
                   /\ lres'.kind = "NotInitialized"
                   /\ sem' = sem /\ fs' = fs /\ locks' = locks /\ lproc' = lproc]_vars

\* both calls were made before _init_config and have failed
C25_Witness ==
    /\ ~inited[1]
    /\ pc[1] = "done" /\ result[1].kind = "NotInitialized" /\ proc[1] = NoProc
    /\ lpc = "done" /\ lres.kind = "NotInitialized" /\ lproc = "none"


\* ------------------------------------------------------------------------
\* Writers to one destination
\* ------------------------------------------------------------------------

\* C26: two RunActions requests in flight that export to the same
\* destination never have their engines running at the same time.
C26_SameDestExclusive ==
    \A r1, r2 \in Reqs :
        (r1 # r2 /\ final_export[r1] # NoPath /\ final_export[r1] = final_export[r2])
            => ~(InWindow(r1) /\ InWindow(r2))


\* ------------------------------------------------------------------------
\* Overlap of requests on one server
\* ------------------------------------------------------------------------

\* two requests of one server that the lock does not order
Unordered(r1, r2) ==
    /\ r1 # r2
    /\ srv[r1] = srv[r2]
    /\ infile[r1] # infile[r2]

\* C27: with max_concurrent >= 2, a request that waits at the gate of a
\* server with a free slot can go on while the engine of another request of
\* that server, for a different document, is running: nothing but the gate
\* and the lock keeps two requests from overlapping.
C27_FreeOverlap ==
    \A r1, r2 \in Reqs :
        (Unordered(r1, r2) /\ proc[r1].leader = "running" /\ pc[r1] = "wait"
            /\ pc[r2] = "gate" /\ sem[srv[r2]] > 0)
            => ENABLED Acquire(r2)

\* the engines of two requests of one server never run at the same time,
\* whatever the number of slots
C27_NeverOverlap ==
    \A r1, r2 \in Reqs :
        (r1 # r2 /\ srv[r1] = srv[r2] /\ srv[r1] # 0) => ~(InWindow(r1) /\ InWindow(r2))


\* ------------------------------------------------------------------------
\* ListActions: no effect
\* ------------------------------------------------------------------------

\* the identifiers of a returned list
Ids(items) == {items[i].id : i \in 1..Len(items)}

\* a step of the ListActions call or of its engine
ListMoves == lpc' # lpc \/ lproc' # lproc

Bounded(r) == pc[r] # "idle" /\ result[r].kind \notin {"UnsafeAction", "NotInitialized"}

\* C29: the bound of the engine wait of a request is the timeout the caller
\* gave, whenever the caller gave one, and the configured default only when
\* the caller gave none.
C29_CallerTimeout ==
    \A r \in Reqs :
        Bounded(r) => timeout[r] = IF timeout_s[r].given THEN timeout_s[r].v
                                   ELSE timeout_default

\* the same for callers that give a positive timeout or none
C29_PositiveTimeout ==
    \A r \in Reqs :
        (Bounded(r) /\ (timeout_s[r].given => timeout_s[r].v > 0))
            => timeout[r] = IF timeout_s[r].given THEN timeout_s[r].v
                            ELSE timeout_default


\* ------------------------------------------------------------------------
\* No retry
\* ------------------------------------------------------------------------

\* C30: a RunActions call starts its engine at most once, a ListActions
\* call starts the enumeration at most once, and a call that has returned,
\* with an error or not, stays returned with the same answer: an engine is
\* started only by a call that has started none, and the record of a
\* started engine is never cleared.
C30_NoRetry ==
    [][/\ \A r \in Reqs :
            /\ (proc'[r].leader = "running" /\ proc[r].leader # "running")
                    => (proc[r] = NoProc /\ exc[r] = "none")
            /\ proc[r] # NoProc => proc'[r] # NoProc
            /\ pc[r] = "done" => (pc'[r] = "done" /\ result'[r] = result[r])
       /\ (lproc' = "running" /\ lproc # "running") => lproc = "none"
       /\ lproc # "none" => lproc' # "none"
       /\ lpc = "done" => (lpc' = "done" /\ lres' = lres)]_vars

\* both calls have failed after their engines ended with a non-zero code
C30_Witness ==
    /\ pc[1] = "done" /\ result[1].kind = "ExecutionFailed"
    /\ proc[1].leader # "running" /\ proc[1].code # 0
    /\ lpc = "done" /\ lres.kind = "CalledProcessError" /\ lproc = "exit1"


\* ------------------------------------------------------------------------
\* Stages of a request
\* ------------------------------------------------------------------------

\* the steps in which a stage of request r is performed
ValidatedAt(r) == pc[r] = "idle" /\ pc'[r] # "idle"
AdmittedAt(r) == pc[r] = "gate" /\ pc'[r] = "admitted"
InputResolvedAt(r) == infile[r] = NoPath /\ infile'[r] # NoPath
ExecutedAt(r) == proc[r] = NoProc /\ proc'[r] # NoProc
PublishedAt(r) == pc[r] = "unlocked" /\ pc'[r] = "done" /\ ~DestUnchanged(r)
DoneAt(r) == pc[r] # "done" /\ pc'[r] = "done"

\* the stages request r has completed
Validated(r) == pc[r] # "idle" /\ validate_actions(actions[r])
Admitted(r) == r \in HoldsSlot(srv[r])
InputResolved(r) == infile[r] # NoPath

\* C31 (as claimed): the stages of a request come in the order Admitted,
\* InputResolved, Validated, Executed, Published, Done: the input is
\* resolved by an admitted request, the actions are validated once the
\* input is resolved, and the engine is started once they are validated.
C31_StageOrder ==
    [][\A r \in Reqs :
          /\ InputResolvedAt(r) => Admitted(r)
          /\ ValidatedAt(r) => InputResolved(r)
          /\ ExecutedAt(r) => Validated(r)
          /\ PublishedAt(r) => EngineSucceeded(r)]_vars

\* C31 (amended): the stages come in the order Validated, Admitted,
\* InputResolved, Executed, Published, Done; no stage is performed before
\* the one before it is complete, and a request that fails starts no
\* engine and publishes nothing in the step that ends it.
C31_StageOrderCode ==
    [][\A r \in Reqs :
          /\ AdmittedAt(r) => Validated(r)
          /\ InputResolvedAt(r) => Admitted(r)
          /\ ExecutedAt(r) => (Validated(r) /\ Admitted(r) /\ InputResolved(r))
          /\ PublishedAt(r) => (EngineSucceeded(r) /\ result'[r].kind = "ok")
          /\ (DoneAt(r) /\ result'[r].kind = "ok") => EngineSucceeded(r)
          /\ (DoneAt(r) /\ result'[r].kind # "ok")
                => (DestUnchanged(r) /\ proc'[r] = proc[r])
          /\ (DoneAt(r) /\ ~InputResolved(r)) => proc[r] = NoProc]_vars

\* C31 witness: a request went through every stage and published its export
C31_Witness ==
    /\ pc[1] = "done" /\ result[1].kind = "ok"
    /\ final_export[1] # NoPath /\ final_export[1] \in DOMAIN fs
    /\ EngineSucceeded(1)


\* ------------------------------------------------------------------------
\* The termination ladder
\* ------------------------------------------------------------------------

\* the signals sent to the engine of request r so far
Sent(r) == proc[r].sig

Waits(r) == \E i \in 1..Len(arrival) : arrival[i] = r
Place(r) == CHOOSE i \in 1..Len(arrival) : arrival[i] = r

\* C33: the requests for one file get its lock in the order in which they
\* started to wait for it: a request takes the lock while another one waits
\* for it only if it started to wait before that one.
C33_ArrivalOrder ==
    [][\A r, r2 \in DOMAIN pc :
          (/\ r # r2
           /\ pc[r] = "ready" /\ pc'[r] = "locked"
           /\ pc[r2] = "ready" /\ infile[r2] = infile[r] /\ Waits(r2))
              => (Waits(r) /\ Place(r) < Place(r2))]_vars

\* the engines of the requests for one file still run one at a time
C33_Serialized ==
    \A r, r2 \in DOMAIN pc :
        (r # r2 /\ infile[r] = infile[r2] /\ infile[r] # NoPath)
            => ~(InWindow(r) /\ InWindow(r2))


\* ------------------------------------------------------------------------
\* The action sequence given to the engine
\* ------------------------------------------------------------------------

\* request r has built its command
Built(r) == proc[r] # NoProc

\* the action list of the command of request r
Acts(r) == MkActs(actions[r], export[r], tmp_export[r])

\* some requested action of r starts with select- or query-
Selects(r) ==
    \E i \in 1..Len(actions[r]) :
        \/ SubSeq(actions[r][i], 1, 1) = <<"select-">>
        \/ SubSeq(actions[r][i], 1, 1) = <<"query-">>

\* the identifier of directive a
Ident(a) == BeforeFirst(a, ":")

\* C34: the actions of a command are select-clear (only when a requested
\* action starts with select- or query-), the requested actions in their
\* order, and, only for an export, the area directive, export-type,
\* export-filename, export-dpi (only with a dpi) and export-do, in that
\* order; every added directive has an allowlisted identifier.
C34_ActionSequence ==
    \A r \in Reqs :
        Built(r) =>
            LET m == Acts(r)
                n == Len(actions[r])
                k == IF Selects(r) THEN 1 ELSE 0
                d == IF export[r] # NoExport /\ export[r].dpi # 0 THEN 1 ELSE 0
                x == IF export[r] = NoExport THEN 0 ELSE 4 + d
            IN  /\ Len(m) = k + n + x
                /\ k = 1 => m[1] = <<"select-", "clear">>
                /\ \A i \in 1..n : m[k + i] = actions[r][i]
                /\ x > 0 =>
                      /\ m[k + n + 1] = IF export[r].area = "page"
                                         THEN <<"export-", "area-page">>
                                         ELSE <<"export-", "area-drawing">>
                      /\ m[k + n + 2] = <<"export-", "type", ":", export[r].type>>
                      /\ Ident(m[k + n + 3]) = <<"export-", "filename">>
                      /\ d = 1 => Ident(m[k + n + 4]) = <<"export-", "dpi">>
                      /\ m[k + n + x] = <<"export-", "do">>
                /\ \A i \in (1..k) \cup ((k + n + 1)..Len(m)) : Ident(m[i]) \in SAFE_ACTIONS
                /\ proc[r].cmd.actions = JoinWith(m, ";")

\* C34 witness: a command with select-clear, a requested action and the
\* five export directives
C34_Witness ==
    /\ Built(1) /\ Selects(1)
    /\ export[1] # NoExport /\ export[1].dpi # 0
    /\ Len(Acts(1)) = Len(actions[1]) + 6


\* ------------------------------------------------------------------------
\* The temporary export path
\* ------------------------------------------------------------------------

\* request r has prepared an export
Exports(r) == export[r] # NoExport /\ tmp_export[r] # NoPath

\* name ends with the characters of sfx
EndsWith(name, sfx) ==
    /\ Len(sfx) <= Len(name)
    /\ SubSeq(name, Len(name) - Len(sfx) + 1, Len(name)) = sfx

\* the export-filename directive the orchestrator generated for request r
GeneratedFilename(r) ==
    Acts(r)[(IF Selects(r) THEN 1 ELSE 0) + Len(actions[r]) + 3]

\* C35: the temporary export path of a request is in the directory of its
\* destination, ends with the destination's suffix and differs from the
\* destination; the generated export-filename directive names the
\* temporary path and not the destination.
C35_TmpExport ==
    \A r \in Reqs :
        Exports(r) =>
            LET sfx == Suffix(Name(final_export[r]))
            IN  /\ Parent(tmp_export[r]) = Parent(final_export[r])
                /\ EndsWith(Name(tmp_export[r]), sfx)
                /\ sfx # <<>> => Suffix(Name(tmp_export[r])) = sfx
                /\ tmp_export[r] # final_export[r]
                /\ Built(r) =>
                      /\ Ident(GeneratedFilename(r)) = <<"export-", "filename">>
                      /\ AfterFirst(GeneratedFilename(r), ":") = Str(tmp_export[r])
                      /\ AfterFirst(GeneratedFilename(r), ":") # Str(final_export[r])

\* C35 witness: the engine runs with a temporary path out.tmp-<uuid>.png
\* beside the destination out.png
C35_Witness ==
    /\ Built(1) /\ Exports(1)
    /\ Name(final_export[1]) = <<"out", ".", "png">>
    /\ Name(tmp_export[1]) = <<"out", ".tmp-", Uuid(1), ".", "png">>


\* ------------------------------------------------------------------------
\* What the engine receives
\* ------------------------------------------------------------------------

\* the actions the engine of request r reads from its --actions string;
\* an empty piece (of an empty string, or between two ";") is no action
Received(r) ==
    LET acts == EngineActions(proc[r].cmd.actions)
    IN  {acts[i] : i \in {j \in 1..Len(acts) : acts[j] # [id |-> <<>>, arg |-> <<>>]}}

\* C36: every action the engine of a validated request receives, read from
\* the --actions string by splitting on ";" and taking the text before the
\* first ":", has an allowlisted identifier.
C36_ReceivedAllowlisted ==
    \A r \in Reqs :
        Built(r) => \A a \in Received(r) : a.id \in SAFE_ACTIONS

\* the same for requests whose arguments and destination hold no ";"
C36_WithoutSeparator ==
    \A r \in Reqs :
        (/\ Built(r)
         /\ \A i \in 1..Len(actions[r]) : Find(actions[r][i], ";", 1) = 0
         /\ Find(Str(tmp_export[r]), ";", 1) = 0)
            => \A a \in Received(r) : a.id \in SAFE_ACTIONS


\* the file an export-filename directive with argument arg names
Named(arg) == Realpath(<<>>, Path(arg).parts)

\* C37: every output filename the engine of a validated request is told to
\* write, the argument of any export-filename directive it receives,
\* resolves inside the workspace.
C37_OutputsInside ==
    \A r \in Reqs :
        Built(r) =>
            \A a \in Received(r) :
                a.id = <<"export-", "filename">> => IsUnder(Named(a.arg), WsRoot)


\* ------------------------------------------------------------------------
\* Nesting of the gate and the file lock
\* ------------------------------------------------------------------------

\* request r is inside its "with FileLock" block and the lock is taken
HoldsLock(r) ==
    /\ HasLock(r)
    /\ pc[r] \in {"locked", "wait", "grace", "reap"}
    /\ LockPath(infile[r]) \in locks

\* request r is inside "async with SEM" and its server's gate counts it
SlotTaken(r) == r \in HoldsSlot(srv[r]) /\ sem[srv[r]] < MaxConcurrent

\* every lock that is taken belongs to a request that holds a gate slot,
\* and a request that waits for a gate slot holds no lock
LockInsideGate ==
    /\ \A l \in locks : \E r \in Reqs : HoldsLock(r) /\ LockPath(infile[r]) = l /\ SlotTaken(r)
    /\ \A r \in Reqs : pc[r] = "gate" => ~HoldsLock(r)

\* a lock is taken by a request that held its slot already and keeps it, a
\* request that leaves its lock still holds its slot, and a request that
\* gives its slot back held no lock
LockStepsInsideGate ==
    /\ \A l \in locks' \ locks :
           \E r \in Reqs : /\ SlotTaken(r) /\ SlotTaken(r)'
                           /\ ~HoldsLock(r) /\ HoldsLock(r)'
                           /\ LockPath(infile[r]) = l
                           /\ sem' = sem
    /\ \A r \in Reqs :
           /\ (HoldsLock(r) /\ ~HoldsLock(r)') => (SlotTaken(r)' /\ sem' = sem)
           /\ (SlotTaken(r) /\ pc'[r] = "done") => ~HoldsLock(r)

\* C38: gate and lock are strictly nested: a request that holds a file lock
\* holds a gate slot, the lock is taken after the slot and left before it,
\* and no request waits for a gate slot while it holds a file lock.
C38_Nested == [](LockInsideGate) /\ [][LockStepsInsideGate]_vars

\* C38 witness: request 1 holds the lock of its input inside its gate, and
\* request 2, inside the gate of the other server, waits for the same lock.
C38_Witness ==
    /\ pc[1] = "wait" /\ HoldsLock(1) /\ SlotTaken(1)
    /\ pc[2] = "ready" /\ HasLock(2) /\ infile[2] = infile[1]
    /\ srv[2] # srv[1] /\ SlotTaken(2)


\* ------------------------------------------------------------------------
\* Two requests that export to one destination
\* ------------------------------------------------------------------------

\* requests r and q take no common file lock
NoSharedLock(r, q) == ~(HasLock(r) /\ HasLock(q) /\ infile[r] = infile[q])

\* requests r and q export to the same destination under no common lock
SameDestination(r, q) ==
    /\ r # q
    /\ final_export[r] # NoPath
    /\ final_export[r] = final_export[q]
    /\ tmp_export[r] # NoPath /\ tmp_export[q] # NoPath
    /\ NoSharedLock(r, q)

\* request r has returned {"ok": true, "out": ...}
Succeeded(r) == pc[r] = "done" /\ result[r].kind = "ok"

\* the temporary export of request q is created, written or removed
TmpTouched(q) ==
    \/ (tmp_export[q] \in DOMAIN fs') # (tmp_export[q] \in DOMAIN fs)
    \/ tmp_export[q] \in DOMAIN fs /\ fs'[tmp_export[q]] # fs[tmp_export[q]]

\* the temporary paths differ, and when both have succeeded the destination
\* is the complete output of one of them and no temporary export is left
SameDestinationState ==
    \A r, q \in Reqs :
        SameDestination(r, q) =>
            /\ tmp_export[r] # tmp_export[q]
            /\ (Succeeded(r) /\ Succeeded(q)) =>
                   /\ final_export[r] \in DOMAIN fs
                   /\ fs[final_export[r]] \in {Full(r), Full(q)}
                   /\ tmp_export[r] \notin DOMAIN fs
                   /\ tmp_export[q] \notin DOMAIN fs

\* the temporary export of a request is touched by its own engine and by
\* its own publication and cleanup only
SameDestinationStep ==
    \A r, q \in Reqs :
        (SameDestination(r, q) /\ TmpTouched(q))
            => (pc'[r] = pc[r] /\ proc'[r] = proc[r])

\* C39: two requests that share no lock and export to one destination use
\* distinct temporary paths, neither touches the other's temporary export,
\* and after both succeeded the destination is the complete output of
\* exactly one of them and no temporary export file is left.
C39_SameDestination == [](SameDestinationState) /\ [][SameDestinationStep]_vars

\* C39 witness: two servers ran the engines of two inline requests for one
\* destination; request 1 has published and cleaned up, and the complete
\* temporary export of request 2 is still there, about to be published.
C39_Witness ==
    /\ SameDestination(1, 2)
    /\ ~HasLock(1) /\ ~HasLock(2)
    /\ srv[1] # srv[2]
    /\ Succeeded(1)
    /\ fs[final_export[1]] = Full(1)
    /\ pc[2] = "unlocked" /\ Outcome(2) = "ok"
    /\ fs[tmp_export[2]] = Full(2)

====
